---- MODULE Spec2Model ----
(***************************************************************************)
(* A model of hw-08.py: the contact data model (Name, Phone, Birthday,     *)
(* Record, AddressBook), the command handlers and the interactive loop of  *)
(* main().  Python strings are sequences of one-character strings, so that *)
(* split(), strip(), isdigit() and strptime() are computed, not assumed.   *)
(* A call's outcome is a record [exc, val]: exc = "None" when the call     *)
(* returned val, the exception's class name when it raised.                *)
(***************************************************************************)
EXTENDS Integers, Sequences, FiniteSets, TLC

VARIABLES
  pc,        \* main(): "start" | "loop" | "done" | "crashed"; "lib" for a client of the classes
  book,      \* AddressBook.data: sequence (insertion order) of [key, rec]
  file,      \* addressbook.pkl: NoFile or the pickled book
  loads,     \* load_data calls of the current session
  saves,     \* save_data calls of the current session
  line,      \* the last line read by input() / the last (command, args) handled
  response,  \* the value print()ed for the last command
  today,     \* datetime.now().date() as read by the last call, NoDate if it read none
  op         \* the last call a client made on the classes, and its outcome

vars == <<pc, book, file, loads, saves, line, response, today, op>>

-----------------------------------------------------------------------------
(* Bounds *)

MaxPhones == 2      \* phones a client puts in one record

-----------------------------------------------------------------------------
(* Python values *)

Ok(v)       == [exc |-> "None", msg |-> "", val |-> v]
Raise(e, m) == [exc |-> e, msg |-> m, val |-> <<>>]
\* the exception of outcome o leaves the callee, the object being v
Fail(o, v)  == [exc |-> o.exc, msg |-> o.msg, val |-> v]

\* a local name: F applied to the value x
Bind(x, F(_)) == F(x)

Digits == {"0", "1", "2", "3", "4", "5", "6", "7", "8", "9"}
Whitespace == {" "}

DigitVal(c) ==
  CASE c = "0" -> 0 [] c = "1" -> 1 [] c = "2" -> 2 [] c = "3" -> 3
    [] c = "4" -> 4 [] c = "5" -> 5 [] c = "6" -> 6 [] c = "7" -> 7
    [] c = "8" -> 8 [] c = "9" -> 9

\* int() of a string of decimal digits
RECURSIVE ToInt(_)
ToInt(s) ==
  IF s = <<>> THEN 0
  ELSE 10 * ToInt(SubSeq(s, 1, Len(s) - 1)) + DigitVal(s[Len(s)])

\* str.isdigit(): non-empty and every character a digit
isdigit(s) == s # <<>> /\ \A i \in 1..Len(s) : s[i] \in Digits

\* str.strip(): leading and trailing whitespace removed
RECURSIVE lstrip(_)
lstrip(s) == IF s # <<>> /\ Head(s) \in Whitespace THEN lstrip(Tail(s)) ELSE s

RECURSIVE rstrip(_)
rstrip(s) ==
  IF s # <<>> /\ s[Len(s)] \in Whitespace THEN rstrip(SubSeq(s, 1, Len(s) - 1)) ELSE s

strip(s) == rstrip(lstrip(s))

\* str.split(): the maximal runs of non-whitespace characters
RECURSIVE split_from(_, _, _)
split_from(s, cur, acc) ==
  IF s = <<>> THEN (IF cur = <<>> THEN acc ELSE Append(acc, cur))
  ELSE IF Head(s) \in Whitespace
       THEN split_from(Tail(s), <<>>, IF cur = <<>> THEN acc ELSE Append(acc, cur))
       ELSE split_from(Tail(s), Append(cur, Head(s)), acc)

split(s) == split_from(s, <<>>, <<>>)

-----------------------------------------------------------------------------
(* Calendar dates: datetime.strptime(value, '%d.%m.%Y'), strftime, replace *)

NoDate == [y |-> 0, m |-> 0, d |-> 0]        \* None
Date(y, m, d) == [y |-> y, m |-> m, d |-> d]

IsLeap(y) == (y % 4 = 0 /\ y % 100 # 0) \/ y % 400 = 0

DaysInMonth(y, m) ==
  CASE m \in {1, 3, 5, 7, 8, 10, 12} -> 31
    [] m \in {4, 6, 9, 11} -> 30
    [] m = 2 -> IF IsLeap(y) THEN 29 ELSE 28

\* the position of the first "." of s, or 0
RECURSIVE FindDot(_, _)
FindDot(s, i) ==
  IF i > Len(s) THEN 0 ELSE IF s[i] = "." THEN i ELSE FindDot(s, i + 1)

\* %d : 3[0-1] | [1-2]\d | 0[1-9] | [1-9] | " "[1-9]
MatchesDay(f) ==
  \/ Len(f) = 2 /\ f[1] = "3" /\ f[2] \in {"0", "1"}
  \/ Len(f) = 2 /\ f[1] \in {"1", "2"} /\ f[2] \in Digits
  \/ Len(f) = 2 /\ f[1] = "0" /\ f[2] \in Digits \ {"0"}
  \/ Len(f) = 1 /\ f[1] \in Digits \ {"0"}
  \/ Len(f) = 2 /\ f[1] = " " /\ f[2] \in Digits \ {"0"}

\* %m : 1[0-2] | 0[1-9] | [1-9]
MatchesMonth(f) ==
  \/ Len(f) = 2 /\ f[1] = "1" /\ f[2] \in {"0", "1", "2"}
  \/ Len(f) = 2 /\ f[1] = "0" /\ f[2] \in Digits \ {"0"}
  \/ Len(f) = 1 /\ f[1] \in Digits \ {"0"}

\* %Y : \d\d\d\d, and nothing may remain after it
MatchesYear(f) == Len(f) = 4 /\ \A i \in 1..4 : f[i] \in Digits

\* the three fields of value once the two dots are found at i1 and i1 + i2
strptime_fields(value, i1, i2) ==
  [d |-> SubSeq(value, 1, i1 - 1),
   m |-> SubSeq(value, i1 + 1, i1 + i2 - 1),
   y |-> SubSeq(value, i1 + i2 + 1, Len(value))]

\* the date of the matched fields
strptime_date(y, m, d) ==
  IF y < 1 THEN Raise("ValueError", "year 0 is out of range")
  ELSE IF d > DaysInMonth(y, m) THEN Raise("ValueError", "day is out of range for month")
  ELSE Ok(Date(y, m, d))

strptime_match(f) ==
  IF ~(MatchesDay(f.d) /\ MatchesMonth(f.m) /\ MatchesYear(f.y))
  THEN Raise("ValueError", "time data does not match format")
  ELSE strptime_date(ToInt(f.y), ToInt(f.m), ToInt(lstrip(f.d)))

strptime_dots(value, i1, i2) ==
  IF i1 = 0 \/ i2 = 0 THEN Raise("ValueError", "time data does not match format")
  ELSE strptime_match(strptime_fields(value, i1, i2))

strptime(value) ==
  Bind(FindDot(value, 1),
       LAMBDA i1 : strptime_dots(value, i1, FindDot(SubSeq(value, i1 + 1, Len(value)), 1)))

DigitChar(n) ==
  CASE n = 0 -> "0" [] n = 1 -> "1" [] n = 2 -> "2" [] n = 3 -> "3"
    [] n = 4 -> "4" [] n = 5 -> "5" [] n = 6 -> "6" [] n = 7 -> "7"
    [] n = 8 -> "8" [] n = 9 -> "9"

\* strftime('%d.%m.%Y') of a date whose year has four digits
strftime(dt) ==
  <<DigitChar(dt.d \div 10), DigitChar(dt.d % 10), ".",
    DigitChar(dt.m \div 10), DigitChar(dt.m % 10), ".",
    DigitChar(dt.y \div 1000), DigitChar((dt.y \div 100) % 10),
    DigitChar((dt.y \div 10) % 10), DigitChar(dt.y % 10)>>

\* datetime.replace(year=y): ValueError when the day does not exist in year y
replace_year(dt, y) ==
  IF dt.d > DaysInMonth(y, dt.m) THEN Raise("ValueError", "day is out of range for month")
  ELSE Ok(Date(y, dt.m, dt.d))

\* datetime < date: Python refuses to order a datetime against a date
datetime_lt_date(dt, d) ==
  Raise("TypeError", "can't compare datetime.datetime to datetime.date")

\* datetime - date: not defined either
datetime_sub_date(dt, d) ==
  Raise("TypeError", "unsupported operand type(s) for -: 'datetime.datetime' and 'datetime.date'")

-----------------------------------------------------------------------------
(* Fields *)

\* Name(value)
Name(value) ==
  IF strip(value) = <<>> THEN Raise("ValueError", "Name cannot be empty.") ELSE Ok(value)

\* Phone(value)
Phone(value) ==
  IF ~isdigit(value) \/ Len(value) # 10
  THEN Raise("ValueError", "Phone number must be 10 digits.")
  ELSE Ok(value)

\* Birthday(value): the parsed datetime
Birthday(value) ==
  Bind(strptime(value),
       LAMBDA parsed : IF parsed.exc # "None"
                       THEN Raise("ValueError", "Invalid date format. Use DD.MM.YYYY")
                       ELSE Ok(parsed.val))

\* Birthday.__str__
Birthday_str(birthday) == strftime(birthday)

-----------------------------------------------------------------------------
(* Record: [name, phones, birthday] *)

\* Record(name)
Record(name) ==
  Bind(Name(name),
       LAMBDA n : IF n.exc # "None" THEN n
                  ELSE Ok([name |-> n.val, phones |-> <<>>, birthday |-> NoDate]))

\* Record.add_phone: the outcome's val is the record after the call
add_phone(record, phone) ==
  Bind(Phone(phone),
       LAMBDA p : IF p.exc # "None" THEN Fail(p, record)
                  ELSE Ok([record EXCEPT !.phones = Append(@, p.val)]))

\* Record.remove_phone
remove_phone(record, phone) ==
  Ok([record EXCEPT !.phones = SelectSeq(@, LAMBDA p : p # phone)])

\* the position of the first phone equal to phone, or 0
RECURSIVE IndexOf(_, _, _)
IndexOf(phones, phone, i) ==
  IF i > Len(phones) THEN 0
  ELSE IF phones[i] = phone THEN i ELSE IndexOf(phones, phone, i + 1)

\* edit_phone with the loop finding the last phone equal to old_phone
RECURSIVE LastIndexOf(_, _, _)
LastIndexOf(phones, phone, i) ==
  IF i < 1 THEN 0
  ELSE IF phones[i] = phone THEN i ELSE LastIndexOf(phones, phone, i - 1)

edit_phone_last(record, old_phone, new_phone) ==
  Bind(LastIndexOf(record.phones, old_phone, Len(record.phones)),
       LAMBDA i : IF i = 0
                  THEN Fail(Raise("ValueError", "Old phone number not found."), record)
                  ELSE Ok([record EXCEPT !.phones[i] = new_phone]))

\* Record.edit_phone: the new value is stored as given
edit_phone(record, old_phone, new_phone) ==
  Bind(IndexOf(record.phones, old_phone, 1),
       LAMBDA i : IF i = 0
                  THEN Fail(Raise("ValueError", "Old phone number not found."), record)
                  ELSE Ok([record EXCEPT !.phones[i] = new_phone]))

\* Record.find_phone: the phone found, or <<>> for None
find_phone(record, phone) ==
  Bind(IndexOf(record.phones, phone, 1),
       LAMBDA i : IF i = 0 THEN <<>> ELSE <<record.phones[i]>>)

\* add_birthday with the field cleared before Birthday() is called
Record_add_birthday_clear(record, birthday) ==
  Bind(Birthday(birthday),
       LAMBDA b : IF b.exc # "None" THEN Fail(b, [record EXCEPT !.birthday = NoDate])
                  ELSE Ok([record EXCEPT !.birthday = b.val]))

\* Record.add_birthday: the field is assigned only when Birthday() returned
Record_add_birthday(record, birthday) ==
  Bind(Birthday(birthday),
       LAMBDA b : IF b.exc # "None" THEN Fail(b, record)
                  ELSE Ok([record EXCEPT !.birthday = b.val]))

\* Record.__str__
Record_str(record) ==
  [kind |-> "record", name |-> record.name, phones |-> record.phones,
   birthday |-> IF record.birthday # NoDate THEN Birthday_str(record.birthday) ELSE <<>>]

-----------------------------------------------------------------------------
(* AddressBook: data is a dict, enumerated in insertion order *)

Keys(data) == {data[i].key : i \in 1..Len(data)}

\* the position of key name in data, or 0
KeyIndex(data, name) ==
  IF name \in Keys(data) THEN CHOOSE i \in 1..Len(data) : data[i].key = name ELSE 0

\* add_record on a list of entries instead of a dict: always appended
add_record_append(data, record) ==
  Append(data, [key |-> record.name, rec |-> record])

\* add_record as setdefault: an existing entry is kept
add_record_keep(data, record) ==
  IF record.name \in Keys(data) THEN data
  ELSE Append(data, [key |-> record.name, rec |-> record])

\* AddressBook.add_record: self.data[record.name.value] = record
add_record(data, record) ==
  Bind(KeyIndex(data, record.name),
       LAMBDA i : IF i = 0 THEN Append(data, [key |-> record.name, rec |-> record])
                  ELSE [data EXCEPT ![i] = [key |-> record.name, rec |-> record]])

\* AddressBook.find: <<>> for None, <<record>> otherwise
find(data, name) ==
  Bind(KeyIndex(data, name), LAMBDA i : IF i = 0 THEN <<>> ELSE <<data[i].rec>>)

\* AddressBook.delete
delete(data, name) ==
  IF name \in Keys(data) THEN SelectSeq(data, LAMBDA e : e.key # name) ELSE data

\* AddressBook.__str__
AddressBook_str(data) ==
  [kind |-> "book", lines |-> [i \in 1..Len(data) |-> Record_str(data[i].rec)]]

\* lines 106-110: the record is appended when the difference is 0..7 days
upcoming_append(record, rolled, delta, upcoming_birthdays) ==
  IF delta.exc # "None" THEN delta
  ELSE Ok(IF 0 <= delta.val /\ delta.val <= 7
          THEN Append(upcoming_birthdays,
                      [name |-> record.name, birthday |-> strftime(rolled)])
          ELSE upcoming_birthdays)

\* lines 104-105: the occurrence moves to next year when it is before now
upcoming_roll(birthday_this_year, passed, now) ==
  IF passed.exc # "None" THEN passed
  ELSE IF passed.val THEN replace_year(birthday_this_year, now.y + 1)
  ELSE Ok(birthday_this_year)

\* the body of the loop for one record that has a birthday
upcoming_record(record, now, upcoming_birthdays) ==
  Bind(replace_year(record.birthday, now.y),
       LAMBDA birthday_this_year :
         IF birthday_this_year.exc # "None" THEN birthday_this_year
         ELSE Bind(upcoming_roll(birthday_this_year.val,
                                 datetime_lt_date(birthday_this_year.val, now), now),
                   LAMBDA rolled :
                     IF rolled.exc # "None" THEN rolled
                     ELSE upcoming_append(record, rolled.val,
                                          datetime_sub_date(rolled.val, now),
                                          upcoming_birthdays)))

\* the loop of get_upcoming_birthdays over the records not yet visited
RECURSIVE upcoming_loop(_, _, _)
upcoming_loop(recs, now, upcoming_birthdays) ==
  IF recs = <<>> THEN Ok(upcoming_birthdays)
  ELSE IF Head(recs).rec.birthday = NoDate
       THEN upcoming_loop(Tail(recs), now, upcoming_birthdays)
       ELSE Bind(upcoming_record(Head(recs).rec, now, upcoming_birthdays),
                 LAMBDA o : IF o.exc # "None" THEN o
                            ELSE upcoming_loop(Tail(recs), now, o.val))

\* AddressBook.get_upcoming_birthdays, now being datetime.now().date()
get_upcoming_birthdays(data, now) == upcoming_loop(data, now, <<>>)

-----------------------------------------------------------------------------
(* Command handlers.  A handler's outcome also carries the book after it.  *)
(* Returned values: PyNone is None, Text a fixed or formatted string.      *)

PyNone  == [kind |-> "None"]
Text(t) == [kind |-> "text", text |-> t]

H(ret, b)        == [exc |-> "None", msg |-> "", val |-> ret, book |-> b]
HRaise(e, m, b)  == [exc |-> e, msg |-> m, val |-> PyNone, book |-> b]
HFail(o, b)      == [exc |-> o.exc, msg |-> o.msg, val |-> PyNone, book |-> b]

\* the record under key name is replaced by its state after a method call
SetRecord(data, name, record) ==
  [data EXCEPT ![KeyIndex(data, name)].rec = record]

\* input_error: any exception of the handler becomes the returned str(e)
input_error(o) ==
  IF o.exc # "None" THEN H(Text(o.msg), o.book) ELSE o

\* add_birthday, undecorated
add_birthday_found(name, birthday, r, b) ==
  IF r.exc # "None" THEN HFail(r, SetRecord(b, name, r.val))
  ELSE H([kind |-> "text", text |-> "Added birthday {birthday} for {name}",
          birthday |-> birthday, name |-> name],
         SetRecord(b, name, r.val))

add_birthday_inner(args, b) ==
  IF Len(args) # 2 THEN HRaise("ValueError", "Usage: add-birthday [name] [birthday]", b)
  ELSE Bind(find(b, args[1]),
            LAMBDA record :
              IF record # <<>>
              THEN add_birthday_found(args[1], args[2],
                                      Record_add_birthday(record[1], args[2]), b)
              ELSE H([kind |-> "text", text |-> "Contact {name} not found",
                      name |-> args[1]], b))

add_birthday(args, b) == input_error(add_birthday_inner(args, b))

\* show_birthday, undecorated
show_birthday_inner(args, b) ==
  IF Len(args) # 1 THEN HRaise("ValueError", "Usage: show-birthday [name]", b)
  ELSE Bind(find(b, args[1]),
            LAMBDA record :
              IF record # <<>> /\ record[1].birthday # NoDate
              THEN H([kind |-> "text", text |-> "{name}'s birthday is {record.birthday}",
                      name |-> args[1], birthday |-> Birthday_str(record[1].birthday)], b)
              ELSE H([kind |-> "text", text |-> "Contact {name} not found or no birthday set",
                      name |-> args[1]], b))

show_birthday(args, b) == input_error(show_birthday_inner(args, b))

\* birthdays, undecorated; now is the clock read by get_upcoming_birthdays
birthdays_inner(args, b, now) ==
  Bind(get_upcoming_birthdays(b, now),
       LAMBDA upcoming :
         IF upcoming.exc # "None" THEN HFail(upcoming, b)
         ELSE IF upcoming.val # <<>>
              THEN H([kind |-> "text", text |-> "{name}: {birthday} per line",
                      items |-> upcoming.val], b)
              ELSE H(Text("No upcoming birthdays"), b))

birthdays(args, b, now) == input_error(birthdays_inner(args, b, now))

\* commands["add"]
commands_add(args, b) ==
  IF Len(args) < 1 THEN HRaise("IndexError", "list index out of range", b)
  ELSE Bind(Record(args[1]),
            LAMBDA r : IF r.exc # "None" THEN HFail(r, b)
                       ELSE H(PyNone, add_record(b, r.val)))

\* commands["change"]
commands_change_found(name, r, b) ==
  IF r.exc # "None" THEN HFail(r, SetRecord(b, name, r.val))
  ELSE H(PyNone, SetRecord(b, name, r.val))

commands_change(args, b) ==
  IF Len(args) < 1 THEN HRaise("IndexError", "list index out of range", b)
  ELSE Bind(find(b, args[1]),
            LAMBDA record :
              IF record = <<>>
              THEN HRaise("AttributeError",
                          "'NoneType' object has no attribute 'edit_phone'", b)
              ELSE IF Len(args) < 3 THEN HRaise("IndexError", "list index out of range", b)
              ELSE commands_change_found(args[1], edit_phone(record[1], args[2], args[3]), b))

\* commands["phone"] reading an attribute of the record found
commands_phone_attr(args, b) ==
  IF Len(args) < 1 THEN HRaise("IndexError", "list index out of range", b)
  ELSE Bind(find(b, args[1]),
            LAMBDA record :
              IF record = <<>>
              THEN HRaise("AttributeError", "'NoneType' object has no attribute 'phones'", b)
              ELSE H(Record_str(record[1]), b))

\* commands["phone"]
commands_phone(args, b) ==
  IF Len(args) < 1 THEN HRaise("IndexError", "list index out of range", b)
  ELSE Bind(find(b, args[1]),
            LAMBDA record : IF record = <<>> THEN H(Text("None"), b)
                            ELSE H(Record_str(record[1]), b))

\* commands["all"]
commands_all(args, b) == H(AddressBook_str(b), b)

\* commands["hello"]
commands_hello(args, b) == H(Text("Hello! How can I assist you?"), b)

\* commands["close"], commands["exit"]
commands_close(args, b) == H(Text("Goodbye!"), b)

T_add           == <<"a", "d", "d">>
T_change        == <<"c", "h", "a", "n", "g", "e">>
T_phone         == <<"p", "h", "o", "n", "e">>
T_all           == <<"a", "l", "l">>
T_add_birthday  == <<"a", "d", "d", "-", "b", "i", "r", "t", "h", "d", "a", "y">>
T_show_birthday == <<"s", "h", "o", "w", "-", "b", "i", "r", "t", "h", "d", "a", "y">>
T_birthdays     == <<"b", "i", "r", "t", "h", "d", "a", "y", "s">>
T_hello         == <<"h", "e", "l", "l", "o">>
T_close         == <<"c", "l", "o", "s", "e">>
T_exit          == <<"e", "x", "i", "t">>

\* the keys of the commands table
commands ==
  {T_add, T_change, T_phone, T_all, T_add_birthday, T_show_birthday,
   T_birthdays, T_hello, T_close, T_exit}

\* parse_input
parse_input(user_input) ==
  Bind(split(user_input),
       LAMBDA parts : IF parts = <<>> THEN Raise("IndexError", "list index out of range")
                      ELSE Ok([command |-> parts[1], args |-> Tail(parts)]))

\* commands[command](args, book)
commands_call(command, args, b, now) ==
  CASE command = T_add           -> commands_add(args, b)
    [] command = T_change        -> commands_change(args, b)
    [] command = T_phone         -> commands_phone(args, b)
    [] command = T_all           -> commands_all(args, b)
    [] command = T_add_birthday  -> add_birthday(args, b)
    [] command = T_show_birthday -> show_birthday(args, b)
    [] command = T_birthdays     -> birthdays(args, b, now)
    [] command = T_hello         -> commands_hello(args, b)
    [] command \in {T_close, T_exit} -> commands_close(args, b)

\* handle_command with a default handler for the tokens not in the table
handle_command_default(command, args, b, now) ==
  IF command \in commands THEN commands_call(command, args, b, now)
  ELSE commands_add(args, b)

\* handle_command
handle_command(command, args, b, now) ==
  IF command \in commands THEN commands_call(command, args, b, now)
  ELSE H(Text("Unknown command"), b)

\* save_data pickling a new AddressBook
save_data_new(b) == <<<<>>>>

\* save_data: the file after pickle.dump(book, f)
save_data(b) == <<b>>

\* load_data: the pickled book, a new AddressBook when there is no file
NoFile == <<>>
load_data(f) == IF f = NoFile THEN <<>> ELSE f[1]

-----------------------------------------------------------------------------
(* Inputs *)

NameA == <<"A">>
NameB == <<"B">>

Phone0   == <<"0", "0", "0", "0", "0", "0", "0", "0", "0", "0">>
Phone1   == <<"1", "1", "1", "1", "1", "1", "1", "1", "1", "1">>
PhoneBad == <<"1", "2", "a">>

Jun12 == <<"1", "2", ".", "0", "6", ".", "1", "9", "9", "0">>
Feb29 == <<"2", "9", ".", "0", "2", ".", "2", "0", "0", "0">>
Feb31 == <<"3", "1", ".", "0", "2", ".", "2", "0", "0", "0">>

T_unknown == <<"r", "m">>

\* the argument lists typed after each command
ArgsOf(c) ==
  CASE c = T_add -> {<<>>, <<NameA>>, <<NameB>>}
    [] c = T_change -> {<<>>, <<NameA>>, <<NameA, Phone0>>, <<NameA, Phone0, Phone1>>,
                        <<NameA, Phone0, PhoneBad>>, <<NameB, Phone0, Phone1>>}
    [] c = T_phone -> {<<>>, <<NameA>>, <<NameB>>}
    [] c = T_add_birthday -> {<<>>, <<NameA>>, <<NameA, Jun12>>, <<NameA, Feb29>>,
                              <<NameA, Feb31>>, <<NameB, Jun12>>, <<NameB, Feb31>>}
    [] c = T_show_birthday -> {<<>>, <<NameA>>, <<NameB>>, <<NameA, NameB>>}
    [] c = T_exit -> {<<>>}
    [] OTHER -> {<<>>, <<NameA>>}

\* " ".join(tokens)
RECURSIVE Join(_)
Join(tokens) ==
  IF tokens = <<>> THEN <<>>
  ELSE IF Len(tokens) = 1 THEN tokens[1]
  ELSE tokens[1] \o <<" ">> \o Join(Tail(tokens))

\* the lines a user types: blank lines, a padded line, and each command
\* followed by its argument lists
Lines ==
  {<<>>, <<" ">>, <<" ">> \o T_hello \o <<" ", " ">>}
    \cup UNION {{Join(<<c>> \o a) : a \in ArgsOf(c)} : c \in commands \cup {T_unknown}}

\* what the loop makes of each line: parse_input's outcome
Inputs == {[line |-> l, parsed |-> parse_input(l)] : l \in Lines}

\* the values datetime.now().date() takes
Todays == {Date(2024, 6, 10), Date(2023, 6, 13)}

NameBlank == <<" ">>

\* the arguments a client of the classes passes
LibNames  == {NameA, NameB}
LibPhones == {Phone0, Phone1, PhoneBad}
LibDates  == {Jun12, Feb31}

\* the record whose phone methods the client calls
PhoneNames == {NameA}

\* the last call of a client: method, receiver's key, arguments, exception
\* raised, returned value, and what the call found: for add_record the
\* number of entries under the name, for edit_phone the number of phones
\* equal to old_phone
MkOp(kind, name, a1, a2, o, ret, found) ==
  [kind |-> kind, name |-> name, a1 |-> a1, a2 |-> a2, exc |-> o.exc, val |-> ret,
   found |-> found]

NoOp == MkOp("none", <<>>, <<>>, <<>>, Ok(<<>>), <<>>, 0)

\* the number of elements of seq equal to x
Count(seq, x) == Cardinality({i \in 1..Len(seq) : seq[i] = x})

-----------------------------------------------------------------------------
(* main() *)

Init ==
  /\ pc = "start"
  /\ book = <<>>
  /\ file = NoFile
  /\ loads = 0
  /\ saves = 0
  /\ line = <<>>
  /\ response = PyNone
  /\ today = NoDate
  /\ op = NoOp

\* book = load_data(); print("Welcome to the assistant bot!")
Load ==
  /\ pc = "start"
  /\ book' = load_data(file)
  /\ loads' = loads + 1
  /\ response' = Text("Welcome to the assistant bot!")
  /\ pc' = "loop"
  /\ UNCHANGED <<file, saves, line, today, op>>

\* one turn of the loop on input i, the clock reading now: an exception that
\* leaves handle_command ends the process
Turn(i, now) ==
  \E o \in {handle_command(i.parsed.val.command, i.parsed.val.args, book, now)} :
     /\ line' = i.line
     /\ today' = IF i.parsed.val.command = T_birthdays THEN now ELSE NoDate
     /\ book' = o.book
     /\ IF o.exc = "None"
        THEN /\ response' = o.val
             /\ pc' = "loop"
        ELSE /\ response' = [kind |-> "traceback", exc |-> o.exc, text |-> o.msg]
             /\ pc' = "crashed"
     /\ UNCHANGED <<file, loads, saves, op>>

\* the lines whose first token is one of cs
InputsOf(cs) == {i \in Inputs : i.parsed.exc = "None" /\ i.parsed.val.command \in cs}

\* parse_input raises on a line without a token
CmdBlank ==
  /\ pc = "loop"
  /\ \E i \in Inputs :
       /\ i.parsed.exc # "None"
       /\ line' = i.line
       /\ response' = [kind |-> "traceback", exc |-> i.parsed.exc, text |-> i.parsed.msg]
  /\ pc' = "crashed"
  /\ today' = NoDate
  /\ UNCHANGED <<book, file, loads, saves, op>>

CmdAdd ==
  /\ pc = "loop"
  /\ \E i \in InputsOf({T_add}) : Turn(i, NoDate)

CmdChange ==
  /\ pc = "loop"
  /\ \E i \in InputsOf({T_change}) : Turn(i, NoDate)

CmdPhone ==
  /\ pc = "loop"
  /\ \E i \in InputsOf({T_phone}) : Turn(i, NoDate)

CmdAll ==
  /\ pc = "loop"
  /\ \E i \in InputsOf({T_all}) : Turn(i, NoDate)

CmdAddBirthday ==
  /\ pc = "loop"
  /\ \E i \in InputsOf({T_add_birthday}) : Turn(i, NoDate)

CmdShowBirthday ==
  /\ pc = "loop"
  /\ \E i \in InputsOf({T_show_birthday}) : Turn(i, NoDate)

CmdBirthdays ==
  /\ pc = "loop"
  /\ \E i \in InputsOf({T_birthdays}), now \in Todays : Turn(i, now)

CmdHello ==
  /\ pc = "loop"
  /\ \E i \in InputsOf({T_hello}) : Turn(i, NoDate)

\* a first token that is not a key of commands
CmdUnknown ==
  /\ pc = "loop"
  /\ \E i \in Inputs :
       /\ i.parsed.exc = "None"
       /\ i.parsed.val.command \notin commands
       /\ Turn(i, NoDate)

\* close / exit: print("Goodbye!"); save_data(book); break
CmdExit ==
  /\ pc = "loop"
  /\ \E i \in InputsOf({T_close, T_exit}) : line' = i.line
  /\ response' = Text("Goodbye!")
  /\ file' = save_data(book)
  /\ saves' = saves + 1
  /\ pc' = "done"
  /\ today' = NoDate
  /\ UNCHANGED <<book, loads, op>>

\* the program is started again
Restart ==
  /\ pc \in {"done", "crashed"}
  /\ pc' = "start"
  /\ book' = <<>>
  /\ loads' = 0
  /\ saves' = 0
  /\ line' = <<>>
  /\ response' = PyNone
  /\ today' = NoDate
  /\ UNCHANGED <<file, op>>

Next ==
  \/ Load
  \/ CmdBlank
  \/ CmdAdd
  \/ CmdChange
  \/ CmdPhone
  \/ CmdAll
  \/ CmdAddBirthday
  \/ CmdShowBirthday
  \/ CmdBirthdays
  \/ CmdHello
  \/ CmdUnknown
  \/ CmdExit
  \/ Restart

Spec == Init /\ [][Next]_vars

-----------------------------------------------------------------------------
(* A client of the classes: it builds records, stores them in an           *)
(* AddressBook, calls the methods of the stored records, and calls         *)
(* handle_command on the book.                                             *)

InitLib ==
  /\ pc = "lib"
  /\ book = <<>>
  /\ file = NoFile
  /\ loads = 0
  /\ saves = 0
  /\ line = <<>>
  /\ response = PyNone
  /\ today = NoDate
  /\ op = NoOp

\* a call that is not handle_command prints nothing
Quiet == line' = <<>> /\ response' = PyNone /\ UNCHANGED <<pc, file, loads, saves>>

\* r = Record(name); r.add_phone(p) for p in phones; book.add_record(r)
LibAddRecord ==
  /\ pc = "lib"
  /\ \E name \in LibNames \cup {NameBlank}, phones \in {<<>>, <<Phone1>>} :
       \E r \in {Record(name)} :
          /\ book' = IF r.exc # "None" THEN book
                     ELSE IF phones = <<>> THEN add_record(book, r.val)
                     ELSE add_record(book, add_phone(r.val, phones[1]).val)
          /\ op' = MkOp("add_record", name, phones, <<>>, r, <<>>,
                        Cardinality({i \in 1..Len(book) : book[i].key = name}))
  /\ today' = NoDate
  /\ Quiet

\* book.delete(name)
LibDelete ==
  /\ pc = "lib"
  /\ \E name \in LibNames :
       /\ book' = delete(book, name)
       /\ op' = MkOp("delete", name, <<>>, <<>>, Ok(<<>>), <<>>, 0)
  /\ today' = NoDate
  /\ Quiet

\* book.find(name).add_phone(phone)
LibAddPhone ==
  /\ pc = "lib"
  /\ \E name \in Keys(book) \cap PhoneNames, phone \in LibPhones :
       \E record \in {find(book, name)[1]} :
          /\ Len(record.phones) < MaxPhones
          /\ \E o \in {add_phone(record, phone)} :
               /\ book' = SetRecord(book, name, o.val)
               /\ op' = MkOp("add_phone", name, phone, <<>>, o, <<>>, 0)
  /\ today' = NoDate
  /\ Quiet

\* book.find(name).remove_phone(phone)
LibRemovePhone ==
  /\ pc = "lib"
  /\ \E name \in Keys(book) \cap PhoneNames, phone \in LibPhones :
       \E o \in {remove_phone(find(book, name)[1], phone)} :
          /\ book' = SetRecord(book, name, o.val)
          /\ op' = MkOp("remove_phone", name, phone, <<>>, o, <<>>, 0)
  /\ today' = NoDate
  /\ Quiet

\* book.find(name).edit_phone(old_phone, new_phone)
LibEditPhone ==
  /\ pc = "lib"
  /\ \E name \in Keys(book) \cap PhoneNames, old_phone \in LibPhones, new_phone \in LibPhones :
       \E record \in {find(book, name)[1]} :
          \E o \in {edit_phone(record, old_phone, new_phone)} :
             /\ book' = SetRecord(book, name, o.val)
             /\ op' = MkOp("edit_phone", name, old_phone, new_phone, o, <<>>,
                           Count(record.phones, old_phone))
  /\ today' = NoDate
  /\ Quiet

\* book.find(name).add_birthday(birthday)
LibAddBirthday ==
  /\ pc = "lib"
  /\ \E name \in Keys(book), birthday \in LibDates :
       \E o \in {Record_add_birthday(find(book, name)[1], birthday)} :
          /\ book' = SetRecord(book, name, o.val)
          /\ op' = MkOp("add_birthday", name, birthday, <<>>, o, <<>>, 0)
  /\ today' = NoDate
  /\ Quiet

\* book.get_upcoming_birthdays(), the clock reading now
LibUpcoming ==
  /\ pc = "lib"
  /\ \E now \in Todays :
       \E o \in {get_upcoming_birthdays(book, now)} :
          /\ today' = now
          /\ op' = MkOp("get_upcoming_birthdays", <<>>, <<>>, <<>>, o, o.val, 0)
  /\ Quiet
  /\ UNCHANGED book

\* handle_command(command, args, book); the exception it raises, if any,
\* reaches the client
LibHandleCommand ==
  /\ pc = "lib"
  /\ \E i \in Inputs :
       /\ i.parsed.exc = "None"
       /\ \E now \in IF i.parsed.val.command = T_birthdays THEN Todays ELSE {NoDate} :
            \E o \in {handle_command(i.parsed.val.command, i.parsed.val.args, book, now)} :
               /\ line' = i.line
               /\ book' = o.book
               /\ today' = now
               /\ response' = o.val
               /\ op' = MkOp("handle_command", <<>>, <<>>, <<>>, o, <<>>, 0)
  /\ UNCHANGED <<pc, file, loads, saves>>

NextLib ==
  \/ LibAddRecord
  \/ LibDelete
  \/ LibAddPhone
  \/ LibRemovePhone
  \/ LibEditPhone
  \/ LibAddBirthday
  \/ LibUpcoming
  \/ LibHandleCommand

SpecLib == InitLib /\ [][NextLib]_vars

-----------------------------------------------------------------------------
(* Properties *)

\* the command and arguments of the last line
LastInput == parse_input(line)

\* the phones of the record under key name
PhonesOf(data, name) == data[KeyIndex(data, name)].rec.phones

\* C1: whatever command is typed, with whatever arguments, the loop answers
\* and goes on: no exception of a command ends the process.
C1_NoCommandCrashes ==
  ~(pc = "crashed" /\ LastInput.exc = "None")

\* C2: every phone stored in a record is a string of exactly 10 decimal
\* digits, whatever add_phone, remove_phone and edit_phone calls were made.
C2_PhonesAreTenDigits ==
  \A i \in 1..Len(book) :
    \A j \in 1..Len(book[i].rec.phones) :
      LET p == book[i].rec.phones[j]
      IN Len(p) = 10 /\ \A k \in 1..Len(p) : p[k] \in Digits

\* the number of days from 01.01.0001 to the date
DaysBeforeYear(y) == 365 * (y - 1) + ((y - 1) \div 4) - ((y - 1) \div 100) + ((y - 1) \div 400)

RECURSIVE DaysBeforeMonth(_, _)
DaysBeforeMonth(y, m) ==
  IF m = 1 THEN 0 ELSE DaysBeforeMonth(y, m - 1) + DaysInMonth(y, m - 1)

Ordinal(dt) == DaysBeforeYear(dt.y) + DaysBeforeMonth(dt.y, dt.m) + dt.d

\* the next annual occurrence of birthday b seen from day t
NextOccurrence(b, t) ==
  IF Ordinal(Date(t.y, b.m, b.d)) < Ordinal(t) THEN Date(t.y + 1, b.m, b.d)
  ELSE Date(t.y, b.m, b.d)

\* that occurrence is a day of the calendar
OccurrenceExists(b, t) ==
  /\ b.d <= DaysInMonth(t.y, b.m)
  /\ NextOccurrence(b, t).d <= DaysInMonth(NextOccurrence(b, t).y, b.m)

\* the entries of the records of data due within 0..7 days of t, in order
RECURSIVE UpcomingEntries(_, _)
UpcomingEntries(data, t) ==
  IF data = <<>> THEN <<>>
  ELSE Bind(NextOccurrence(Head(data).rec.birthday, t),
            LAMBDA occ :
              (IF /\ Head(data).rec.birthday # NoDate
                  /\ 0 <= Ordinal(occ) - Ordinal(t)
                  /\ Ordinal(occ) - Ordinal(t) <= 7
               THEN <<[name |-> Head(data).rec.name, birthday |-> strftime(occ)]>>
               ELSE <<>>) \o UpcomingEntries(Tail(data), t))

\* C4: get_upcoming_birthdays returns, in insertion order, one entry for each
\* record whose next birthday falls 0 to 7 days after today, dated on that
\* occurrence, and nothing else.
C4_UpcomingIsTheWindow ==
  (/\ op.kind = "get_upcoming_birthdays"
   /\ \A i \in 1..Len(book) :
        book[i].rec.birthday # NoDate => OccurrenceExists(book[i].rec.birthday, today))
  => (op.exc = "None" /\ op.val = UpcomingEntries(book, today))

\* C5: every entry of the book is stored under its record's name, and no two
\* entries share a name.
C5_KeysAreNames ==
  /\ \A i \in 1..Len(book) : book[i].key = book[i].rec.name
  /\ \A i, j \in 1..Len(book) : book[i].key = book[j].key => i = j

\* two entries, the second one just stored by add_record
C5_Witness ==
  /\ op.kind = "add_record" /\ op.exc = "None" /\ op.found = 0
  /\ Len(book) = 2
  /\ book[2].key = op.name

\* edit_phone(old, new) on a record that holds old replaces the first phone
\* equal to old, in place
C3_ReplacesFirst ==
  (op'.kind = "edit_phone" /\ Count(PhonesOf(book, op'.name), op'.a1) > 0)
  => /\ op'.exc = "None"
     /\ Len(PhonesOf(book', op'.name)) = Len(PhonesOf(book, op'.name))
     /\ \E i \in 1..Len(PhonesOf(book, op'.name)) :
          /\ PhonesOf(book, op'.name)[i] = op'.a1
          /\ \A j \in 1..(i - 1) : PhonesOf(book, op'.name)[j] # op'.a1
          /\ PhonesOf(book', op'.name)[i] = op'.a2
          /\ \A j \in 1..Len(PhonesOf(book, op'.name)) :
               j # i => PhonesOf(book', op'.name)[j] = PhonesOf(book, op'.name)[j]

\* the step repeats the successful edit_phone call that came just before it
C3_SameCallAgain ==
  /\ op.kind = "edit_phone" /\ op.exc = "None"
  /\ op'.kind = "edit_phone" /\ op'.name = op.name /\ op'.a1 = op.a1 /\ op'.a2 = op.a2

C3_NotFound == op'.exc = "ValueError" /\ book' = book

\* C3 as stated: edit_phone(old, new) replaces the first phone equal to old in
\* place, and the same call made again fails with not-found and changes nothing.
C3_EditThenNotFound ==
  [][C3_ReplacesFirst /\ (C3_SameCallAgain => C3_NotFound)]_vars

\* C3 amended: edit_phone(old, new) replaces the first phone equal to old in
\* place; the same call made again fails with not-found and changes nothing
\* when old occurred exactly once in the list and new differs from old.
C3_EditThenNotFoundIfSingle ==
  [][C3_ReplacesFirst
     /\ (C3_SameCallAgain /\ op.found = 1 /\ op.a1 # op.a2 => C3_NotFound)]_vars

\* edit_phone has just replaced the first of two equal phones
C3_Witness ==
  /\ op.kind = "edit_phone" /\ op.exc = "None" /\ op.found = 2
  /\ op.a1 # op.a2
  /\ PhonesOf(book, op.name) = <<op.a2, op.a1>>

\* the entries of data other than the one under name are those of old
OthersUnchanged(old, data, name) ==
  /\ Len(data) = Len(old)
  /\ \A i \in 1..Len(old) : old[i].key # name => data[i] = old[i]

\* the entry of data under name is exactly record
HoldsExactly(data, name, record) ==
  /\ \E i \in 1..Len(data) : data[i].key = name /\ data[i].rec = record
  /\ \A i \in 1..Len(data) : data[i].key = name => data[i].rec = record

\* C6: add_record under a name already in the book replaces that entry by the
\* new record, keeps the number of entries and every other entry; the command
\* `add name` on such a name leaves the contact without phones and birthday.
C6_AddReplaces ==
  [][/\ (op'.kind = "add_record" /\ op'.exc = "None" /\ op'.name \in Keys(book))
        => /\ HoldsExactly(book', op'.name,
                           [name |-> op'.name, phones |-> op'.a1, birthday |-> NoDate])
           /\ OthersUnchanged(book, book', op'.name)
     /\ (/\ op'.kind = "handle_command"
         /\ parse_input(line').val.command = T_add
         /\ parse_input(line').val.args # <<>>
         /\ parse_input(line').val.args[1] \in Keys(book))
        => /\ HoldsExactly(book', parse_input(line').val.args[1],
                           [name |-> parse_input(line').val.args[1], phones |-> <<>>,
                            birthday |-> NoDate])
           /\ OthersUnchanged(book, book', parse_input(line').val.args[1])]_vars

\* add_record has just replaced the first of two entries
C6_Witness ==
  /\ op.kind = "add_record" /\ op.exc = "None" /\ op.found = 1
  /\ Len(book) = 2
  /\ book[1].key = op.name
  /\ book[2].rec.phones # <<>>

C7_Counts ==
  /\ pc = "start" => loads = 0 /\ saves = 0
  /\ pc \in {"loop", "crashed"} => loads = 1 /\ saves = 0
  /\ pc = "done" => loads = 1 /\ saves = 1 /\ file = <<book>>

C7_Step ==
  /\ loads' > loads
     => pc = "start" /\ book' = (IF file = NoFile THEN <<>> ELSE file[1])
  /\ (saves' > saves \/ file' # file)
     => /\ pc = "loop"
        /\ parse_input(line').val.command \in {T_close, T_exit}
        /\ file' = <<book>> /\ book' = book /\ pc' = "done"
  /\ (/\ pc = "loop"
      /\ parse_input(line').exc = "None"
      /\ parse_input(line').val.command \in {T_close, T_exit})
     => pc' = "done" /\ saves' = saves + 1
  /\ pc = "done" => pc' = "start" /\ file' = file

\* C7: a session loads the book once, before its first command (an empty book
\* when there is no file), writes the file only when close or exit is entered,
\* once, with the book as the commands left it, and handles nothing after it.
C7_LoadOnceSaveOnce == []C7_Counts /\ [][C7_Step]_vars

\* a session has ended with close or exit and saved a book that has a record
C7_Witness ==
  /\ pc = "done" /\ saves = 1 /\ loads = 1
  /\ book # <<>>
  /\ file = <<book>>

\* C8: handle_command answers a token that is not in the table with
\* "Unknown command" and leaves the book as it was, whatever the arguments.
C8_UnknownCommand ==
  [][(op'.kind = "handle_command" /\ parse_input(line').val.command \notin commands)
     => (op'.exc = "None" /\ response' = Text("Unknown command") /\ book' = book)]_vars

\* an unknown token with an argument was answered on a book holding phones
C8_Witness ==
  /\ op.kind = "handle_command"
  /\ LastInput.val.command \notin commands
  /\ LastInput.val.args # <<>>
  /\ response = Text("Unknown command")
  /\ \E i \in 1..Len(book) : book[i].rec.phones # <<>>

AddBirthdayFails(args, data) ==
  \/ Len(args) # 2
  \/ args[1] \notin Keys(data)
  \/ strptime(args[2]).exc # "None"

\* C10: an add-birthday command that does not succeed (wrong number of
\* arguments, unknown name, date that does not parse) leaves the book as it
\* was: a birthday set before is kept, no record is created.
C10_FailedAddBirthday ==
  [][(/\ pc = "loop"
      /\ parse_input(line').exc = "None"
      /\ parse_input(line').val.command = T_add_birthday
      /\ AddBirthdayFails(parse_input(line').val.args, book))
     => book' = book]_vars

\* an invalid date was refused for a contact that keeps its birthday
C10_Witness ==
  /\ pc = "loop"
  /\ LastInput.exc = "None"
  /\ LastInput.val.command = T_add_birthday
  /\ Len(LastInput.val.args) = 2
  /\ LastInput.val.args[1] \in Keys(book)
  /\ strptime(LastInput.val.args[2]).exc # "None"
  /\ book[KeyIndex(book, LastInput.val.args[1])].rec.birthday # NoDate
  /\ response = Text("Invalid date format. Use DD.MM.YYYY")

====
